---- MODULE Spec2Model ----
(***************************************************************************)
(* mloader: the naming engine (mloader/utils.py and the naming half of     *)
(* ExporterBase) and the three exporters (RawExporter, CBZExporter,        *)
(* PDFExporter) of mloader/exporter.py.                                    *)
(*                                                                         *)
(* A Python str is a sequence of characters.  A character is a string of   *)
(* length one; the two code points U+0130 (LATIN CAPITAL LETTER I WITH DOT *)
(* ABOVE) and U+0307 (COMBINING DOT ABOVE) are written "U0130", "U0307".   *)
(* The backtick and the backslash are written "BACKTICK", "BACKSLASH", and *)
(* the brackets U+3010, U+3011 "U3010", "U3011".  An Optional value is a   *)
(* sequence of length at most one: <<>> is None, <<v>> is the value v.     *)
(***************************************************************************)
EXTENDS Integers, Sequences, FiniteSets, TLC

None == <<>>

Some(v) == <<v>>

(***************************************************************************)
(* Python str primitives used by utils.py and exporter.py                  *)
(***************************************************************************)
LowerLetters ==
  <<"a","b","c","d","e","f","g","h","i","j","k","l","m",
    "n","o","p","q","r","s","t","u","v","w","x","y","z">>

UpperLetters ==
  <<"A","B","C","D","E","F","G","H","I","J","K","L","M",
    "N","O","P","Q","R","S","T","U","V","W","X","Y","Z">>

Digits == <<"0","1","2","3","4","5","6","7","8","9">>

RangeOf(s) == { s[k] : k \in DOMAIN s }

IndexIn(c, s) == CHOOSE k \in DOMAIN s : s[k] = c

\* str.isspace() / the regex class \s, on the characters of the model
IsSpace(c) == c \in {" ", "\t"}

\* a cased character: str.title() starts a new word after an uncased one
IsCased(c) == c \in RangeOf(LowerLetters) \cup RangeOf(UpperLetters) \cup {"U0130"}

\* lower() of one character; U+0130 lowers to "i" followed by U+0307
CharLower(c) ==
  IF c \in RangeOf(UpperLetters) THEN <<LowerLetters[IndexIn(c, UpperLetters)]>>
  ELSE IF c = "U0130" THEN <<"i", "U0307">>
  ELSE <<c>>

\* the title-case (= upper-case, for these characters) form of one character
CharTitle(c) ==
  IF c \in RangeOf(LowerLetters) THEN <<UpperLetters[IndexIn(c, LowerLetters)]>>
  ELSE <<c>>

RECURSIVE StrLower(_)
StrLower(s) == IF s = <<>> THEN <<>> ELSE CharLower(Head(s)) \o StrLower(Tail(s))

\* str.title(): a character that follows a cased one is lowered, any other is
\* title-cased
RECURSIVE TitleFrom(_, _)
TitleFrom(s, prevCased) ==
  IF s = <<>> THEN <<>>
  ELSE (IF prevCased THEN CharLower(Head(s)) ELSE CharTitle(Head(s)))
         \o TitleFrom(Tail(s), IsCased(Head(s)))

StrTitle(s) == TitleFrom(s, FALSE)

\* str.capitalize(): first character title-cased, the rest lowered
StrCapitalize(s) ==
  IF s = <<>> THEN <<>> ELSE CharTitle(Head(s)) \o StrLower(Tail(s))

StartsWith(s, p) == Len(s) >= Len(p) /\ SubSeq(s, 1, Len(p)) = p

EndsWith(s, p) == Len(s) >= Len(p) /\ SubSeq(s, Len(s) - Len(p) + 1, Len(s)) = p

\* the `in` operator on strings
Contains(s, p) == \E k \in 0..(Len(s) - Len(p)) : SubSeq(s, k + 1, k + Len(p)) = p

\* str.replace(pat, rep): leftmost, non-overlapping
RECURSIVE Replace(_, _, _)
Replace(s, pat, rep) ==
  IF s = <<>> THEN <<>>
  ELSE IF StartsWith(s, pat) THEN rep \o Replace(SubSeq(s, Len(pat) + 1, Len(s)), pat, rep)
  ELSE <<Head(s)>> \o Replace(Tail(s), pat, rep)

\* str.lstrip(chars), str.rstrip(chars), str.strip(chars)
RECURSIVE LStrip(_, _)
LStrip(s, chars) ==
  IF s # <<>> /\ Head(s) \in chars THEN LStrip(Tail(s), chars) ELSE s

RECURSIVE RStrip(_, _)
RStrip(s, chars) ==
  IF s # <<>> /\ s[Len(s)] \in chars THEN RStrip(SubSeq(s, 1, Len(s) - 1), chars) ELSE s

Strip(s, chars) == RStrip(LStrip(s, chars), chars)

\* sep.join(parts)
RECURSIVE Join(_, _)
Join(parts, sep) ==
  IF parts = <<>> THEN <<>>
  ELSE IF Len(parts) = 1 THEN parts[1]
  ELSE parts[1] \o sep \o Join(Tail(parts), sep)

\* re.findall(r"([\S]+)+", s) and str.split(): the maximal runs of non-space
RECURSIVE SplitFrom(_, _)
SplitFrom(s, cur) ==
  IF s = <<>> THEN (IF cur = <<>> THEN <<>> ELSE <<cur>>)
  ELSE IF IsSpace(Head(s))
       THEN (IF cur = <<>> THEN <<>> ELSE <<cur>>) \o SplitFrom(Tail(s), <<>>)
       ELSE SplitFrom(Tail(s), Append(cur, Head(s)))

Split(s) == SplitFrom(s, <<>>)

\* decimal digits of a natural number, str(n)
RECURSIVE NatStr(_)
NatStr(n) == IF n < 10 THEN <<Digits[n + 1]>> ELSE NatStr(n \div 10) \o <<Digits[(n % 10) + 1]>>

IntStr(n) == IF n < 0 THEN <<"-">> \o NatStr(0 - n) ELSE NatStr(n)

\* format(x, "0>3") on str(x): right-aligned in width 3, filled with "0"
RECURSIVE PadLeft3(_)
PadLeft3(s) == IF Len(s) >= 3 THEN s ELSE PadLeft3(<<"0">> \o s)

(***************************************************************************)
(* mloader/utils.py                                                        *)
(***************************************************************************)
\* is_oneshot
is_oneshot(chapter_name, chapter_subtitle) ==
  \E name \in {chapter_name, chapter_subtitle} :
     /\ Contains(StrLower(name), <<"o","n","e">>)
     /\ Contains(StrLower(name), <<"s","h","o","t">>)

\* int(s) for a str: optional sign, then decimal digits; None for ValueError
RECURSIVE DigitsValue(_)
DigitsValue(s) ==
  IF s = <<>> THEN 0 ELSE 10 * DigitsValue(SubSeq(s, 1, Len(s) - 1)) + (IndexIn(s[Len(s)], Digits) - 1)

AllDigits(s) == s # <<>> /\ \A k \in DOMAIN s : s[k] \in RangeOf(Digits)

ParseInt(s) ==
  LET t == Strip(s, {" ", "\t"}) IN
  IF AllDigits(t) THEN Some(DigitsValue(t))
  ELSE IF t # <<>> /\ Head(t) = "-" /\ AllDigits(Tail(t)) THEN Some(0 - DigitsValue(Tail(t)))
  ELSE IF t # <<>> /\ Head(t) = "+" /\ AllDigits(Tail(t)) THEN Some(DigitsValue(Tail(t)))
  ELSE None

\* chapter_name_to_int
chapter_name_to_int(name) == ParseInt(LStrip(name, {"#"}))

\* the character class of the first re.sub of beautify_path
Blacklist == {"~", "BACKTICK", "!", "@", "$", "^", "*", "BACKSLASH", "U3010", "U3011"}

RemoveBlacklisted(s) == SelectSeq(s, LAMBDA c : c \notin Blacklist)

Closer(c) == IF c = "(" THEN ")" ELSE IF c = "[" THEN "]" ELSE "}"

\* re.sub(r'\((.*?)\)|\[(.*?)\]|\{(.*?)\}', bracket_match_capitalize, item):
\* scanning left to right, an opening bracket with a later matching closer
\* starts a match that ends at the nearest closer
RECURSIVE BracketSub(_)
BracketSub(item) ==
  IF item = <<>> THEN <<>>
  ELSE IF /\ Head(item) \in {"(", "[", "{"}
          /\ \E j \in 2..Len(item) : item[j] = Closer(Head(item))
       THEN LET j == CHOOSE j \in 2..Len(item) :
                        /\ item[j] = Closer(Head(item))
                        /\ \A i \in 2..(j - 1) : item[i] # Closer(Head(item))
            IN  StrCapitalize(SubSeq(item, 1, j)) \o BracketSub(SubSeq(item, j + 1, Len(item)))
       ELSE <<Head(item)>> \o BracketSub(Tail(item))

CaseWord(word) == IF "'" \in RangeOf(word) THEN StrCapitalize(word) ELSE StrTitle(word)

FormatItem(item) ==
  LET words == Split(BracketSub(item))
  IN  Join([k \in DOMAIN words |-> CaseWord(words[k])], <<" ">>)

\* beautify_path
beautify_path(path) ==
  LET clean_str == Replace(Replace(Replace(RemoveBlacklisted(path),
                      <<":", " ">>, <<" ", "-", " ">>),
                      <<":">>, <<"-">>),
                      <<"/">>, <<" ", "o", "f", " ">>)
      clean_list == Split(clean_str)
  IN  Join([k \in DOMAIN clean_list |-> FormatItem(clean_list[k])], <<" ">>)

(***************************************************************************)
(* mloader/exporter.py: ExporterBase, the naming context                   *)
(***************************************************************************)
\* Language is the name of the enum member of mloader.constants.Language
Languages == { <<"e", "n", "g">>, <<"s", "p", "a">> }

\* ExporterBase._is_extra
_is_extra(chapter_name) == Strip(chapter_name, {"#"}) = <<"e", "x">>

\* truth value of an Optional[str]: neither None nor ""
Truthy(opt) == opt # None /\ opt[1] # <<>>

\* datetime.fromtimestamp(t).year and datetime.today().year: the calendar year
\* of the local time, utcoffset seconds east of UTC
IsLeap(y) == (y % 4 = 0 /\ y % 100 # 0) \/ y % 400 = 0

DaysIn(y) == IF IsLeap(y) THEN 366 ELSE 365

RECURSIVE YearFrom(_, _)
YearFrom(y, days) == IF days < DaysIn(y) THEN y ELSE YearFrom(y + 1, days - DaysIn(y))

YearOfTimestamp(t, utcoffset) == YearFrom(1970, (t + utcoffset) \div 86400)

\* the branch of _format_chapter_prefix that sets suffix = "x1"
TakesExtraBranch(oneshot, extra, next_chapter_name) ==
  ~oneshot /\ extra /\ Truthy(next_chapter_name)

\* chapter_num after the if/elif/else of _format_chapter_prefix, None kept
ResolvedNumber(oneshot, extra, chapter_name, next_chapter_name) ==
  IF oneshot THEN Some(0)
  ELSE IF extra /\ Truthy(next_chapter_name)
       THEN LET n == chapter_name_to_int(next_chapter_name[1])
            IN  IF n # None THEN Some(n[1] - 1) ELSE None
       ELSE chapter_name_to_int(chapter_name)

\* the letter switching one chapter late
NumberPrefix_late(oneshot, num) ==
  IF oneshot \/ num = None THEN <<>>
  ELSE IF num[1] <= 1000 THEN <<"c">> ELSE <<"d">>

\* prefix: "c" below 1000, "d" from 1000 on, "" for a oneshot or no number
NumberPrefix(oneshot, num) ==
  IF oneshot \/ num = None THEN <<>>
  ELSE IF num[1] < 1000 THEN <<"c">> ELSE <<"d">>

NumberSuffix(oneshot, extra, next_chapter_name) ==
  IF TakesExtraBranch(oneshot, extra, next_chapter_name) THEN <<"x", "1">> ELSE <<>>

\* f"{prefix}{chapter_num:0>3}{suffix}", chapter_num an int or, when None, the
\* str beautify_path(chapter_name): the format spec pads either to width 3
ChapterToken(oneshot, extra, chapter_name, next_chapter_name) ==
  LET num == ResolvedNumber(oneshot, extra, chapter_name, next_chapter_name)
      shown == IF num = None THEN beautify_path(chapter_name) ELSE IntStr(num[1])
  IN  NumberPrefix(oneshot, num) \o PadLeft3(shown)
        \o NumberSuffix(oneshot, extra, next_chapter_name)

\* the year hidden for a chapter of the current year
ShowsYear_strict(pub_year, this_year) == pub_year < this_year

\* the guard of components.append(f"({self.pub_year})")
ShowsYear(pub_year, this_year) == pub_year <= this_year

\* components of _format_chapter_prefix, before " ".join
PrefixComponents(title_name, oneshot, extra, m) ==
  LET pub_year == YearOfTimestamp(m.start_timestamp, m.utcoffset)
  IN  <<title_name>>
        \o (IF m.language # <<"e", "n", "g">> THEN << <<"[">> \o m.language \o <<"]">> >> ELSE <<>>)
        \o << <<"-">> >>
        \o << ChapterToken(oneshot, extra, m.chapter, m.next_chapter) >>
        \o (IF ShowsYear(pub_year, YearOfTimestamp(m.now, m.utcoffset))
            THEN << <<"(">> \o IntStr(pub_year) \o <<")">> >> ELSE <<>>)
        \o << <<"(", "w", "e", "b", ")">> >>

_format_chapter_prefix(title_name, oneshot, extra, m) ==
  Join(PrefixComponents(title_name, oneshot, extra, m), <<" ">>)

\* self._extra_info as __init__ fills it
ExtraInfo(oneshot, m) ==
  (IF oneshot THEN << <<"[","O","n","e","s","h","o","t","]">> >> ELSE <<>>)
    \o (IF m.add_chapter_title
        THEN << <<"[">> \o beautify_path(m.sub_title) \o <<"]">> >> ELSE <<>>)

Signature == <<"[","f","r","3","a","k","y","p","h","a","n","t","o","m","]">>

_format_chapter_suffix(extra_info) == Join(extra_info \o <<Signature>>, <<" ">>)

\* ExporterBase.__init__: the fields of the instance
NamingContext(m) ==
  LET title_name == beautify_path(m.title)
      oneshot == is_oneshot(m.chapter, m.sub_title)
      extra == _is_extra(m.chapter)
      prefix == _format_chapter_prefix(title_name, oneshot, extra, m)
      suffix == _format_chapter_suffix(ExtraInfo(oneshot, m))
  IN  [ title_name |-> title_name,
        is_oneshot |-> oneshot,
        is_extra |-> extra,
        components |-> PrefixComponents(title_name, oneshot, extra, m),
        chapter_prefix |-> prefix,
        chapter_suffix |-> suffix,
        chapter_name |-> Join(<<prefix, suffix>>, <<" ">>),
        pub_year |-> YearOfTimestamp(m.start_timestamp, m.utcoffset) ]

NoContext ==
  [ title_name |-> <<>>, is_oneshot |-> FALSE, is_extra |-> FALSE, components |-> <<>>,
    chapter_prefix |-> <<>>, chapter_suffix |-> <<>>, chapter_name |-> <<>>, pub_year |-> 0 ]

\* a page index: an int, or a range(start, stop)
IntPage(n) == [kind |-> "int", start |-> n, stop |-> n]

RangePage(a, b) == [kind |-> "range", start |-> a, stop |-> b]

\* a range rendered by its start alone
PageLabel_startOnly(page) == <<"p">> \o PadLeft3(IntStr(page.start))

PageLabel(page) ==
  IF page.kind = "range"
  THEN <<"p">> \o PadLeft3(IntStr(page.start)) \o <<"-">> \o PadLeft3(IntStr(page.stop))
  ELSE <<"p">> \o PadLeft3(IntStr(page.start))

\* ExporterBase.format_page_name, ext = ".jpg"
format_page_name(c, page) ==
  c.chapter_prefix \o <<" ", "-", " ">> \o PageLabel(page) \o <<" ">> \o c.chapter_suffix
    \o <<".">> \o LStrip(<<".", "j", "p", "g">>, {"."})

(***************************************************************************)
(* Bounds and inputs                                                       *)
(***************************************************************************)
MaxPage == 1

MaxCalls == 2

MaxCloses == 2

MaxNameLen == 3

MaxSanLen == 4

PageIndices ==
  { IntPage(n) : n \in 0..MaxPage }
    \cup { RangePage(r[1], r[2]) : r \in { q \in (0..MaxPage) \X (0..MaxPage) : q[1] < q[2] } }

ImageData == {"jpgA", "jpgB"}

Formats == {"raw", "cbz", "pdf"}

\* 2001-09-09, 2026-06-01, 2026-12-31 23:59:59, 2027-01-01 00:00:00 (UTC)
Timestamps == {1000000000, 1780272000, 1798761599, 1798761600}

Destination == <<"d">>

BaseMeta ==
  [ title |-> <<"o", "p">>, language |-> <<"e", "n", "g">>, chapter |-> <<"#", "5">>,
    sub_title |-> <<>>, start_timestamp |-> 1000000000, next_chapter |-> None,
    add_chapter_title |-> FALSE, now |-> 1780272000, utcoffset |-> 0 ]

\* the chapters exported: a numbered chapter, and an extra before chapter 6
ExportMetas ==
  { BaseMeta,
    [BaseMeta EXCEPT !.chapter = <<"e", "x">>, !.next_chapter = Some(<<"#", "6">>)] }

(***************************************************************************)
(* The file system and the containers                                      *)
(***************************************************************************)
\* Path(a, b, c) and the concatenation a + "/" + b + "/" + c
PathJoin(parts) == Join(parts, <<"/">>)

Bytes(data) == [kind |-> "bytes", data |-> data]

\* a zip archive: its entries, (name, data), in the order written
Zip(entries) == [kind |-> "zip", entries |-> entries]

\* a PDF document: its pages, the decoded images, and its title
Pdf(pages, title) == [kind |-> "pdf", pages |-> pages, title |-> title]

\* Image.open(io.BytesIO(image_data))
ImageOpen(data) == [image |-> data]

\* Path.write_bytes, Image.save: the file is created or replaced
WriteFile(fs, p, content) ==
  [q \in (DOMAIN fs) \cup {p} |-> IF q = p THEN content ELSE fs[q]]

\* Path.exists
Exists(fs, ds, p) == p \in DOMAIN fs \/ p \in ds

RawDir(c) == PathJoin(<<Destination, c.title_name, c.chapter_name>>)

TitleDir(c) == PathJoin(<<Destination, c.title_name>>)

\* full_path of CBZExporter.__init__ and PDFExporter.__init__
ContainerPath(c, ext) ==
  Destination \o <<"/">> \o c.title_name \o <<"/">> \o c.chapter_name \o ext

CbzExt == <<".", "c", "b", "z">>

PdfExt == <<".", "p", "d", "f">>

\* RawExporter: self.path.joinpath(filename)
PagePath(c, index) == PathJoin(<<RawDir(c), format_page_name(c, index)>>)

\* entries stored at the root of the archive
ArchiveEntryName_flat(c, index) == format_page_name(c, index)

\* CBZExporter.add_image: Path(self.chapter_name, name).as_posix()
ArchiveEntryName(c, index) == PathJoin(<<c.chapter_name, format_page_name(c, index)>>)

\* what an earlier run left at the destination: for raw, nothing or one page;
\* for a container format, nothing or the finished container
Priors(f) ==
  IF f = "raw"
  THEN { {} } \cup { {i} : i \in PageIndices }
  ELSE { {}, {"container"} }

PriorFiles(f, m, prior) ==
  LET c == NamingContext(m) IN
  IF f = "raw" THEN [q \in { PagePath(c, i) : i \in prior } |-> Bytes("jpgOld")]
  ELSE IF prior = {} THEN [q \in {} |-> Bytes("jpgOld")]
  ELSE IF f = "cbz"
       THEN [q \in {ContainerPath(c, CbzExt)} |->
               Zip(<< <<ArchiveEntryName(c, IntPage(0)), "jpgOld">> >>)]
       ELSE [q \in {ContainerPath(c, PdfExt)} |->
               Pdf(<<ImageOpen("jpgOld")>>, c.chapter_name)]

PriorDirs(f, m, prior) ==
  LET c == NamingContext(m) IN
  IF prior = {} THEN {}
  ELSE IF f = "raw" THEN {Destination, TitleDir(c), RawDir(c)}
  ELSE {Destination, TitleDir(c)}

(***************************************************************************)
(* State                                                                   *)
(***************************************************************************)
VARIABLES
  meta,             \* title, chapter, next_chapter, add_chapter_title, the clock
  pc,               \* "new" before the constructor ran, "open" after
  fmt,              \* the class of the exporter: its format
  ctx,              \* the fields ExporterBase.__init__ sets
  path,             \* self.path
  skip_all_images,  \* self.skip_all_images
  archive,          \* self.archive: the entries written to self.archive_buffer
  archive_fp,       \* whether self.archive is open (ZipFile.fp is not None)
  images,           \* self.images
  files,            \* the regular files on disk: path -> content
  dirs,             \* the directories on disk
  result,           \* the last call and what it returned or raised
  calls,            \* add_image calls made
  closes,           \* close calls made
  finalizes,        \* times close wrote the container to self.path
  files0,           \* the files on disk when the exporter was constructed
  added,            \* the (index, data) of the CBZ add_image calls that returned
  written,          \* the page indices whose page file was written
  san_in, san_out, san_again  \* beautify_path: argument, result, result of result

vars ==
  <<meta, pc, fmt, ctx, path, skip_all_images, archive, archive_fp, images, files,
    dirs, result, calls, closes, finalizes, files0, added, written,
    san_in, san_out, san_again>>

sanVars == <<san_in, san_out, san_again>>

objVars == <<path, skip_all_images, archive, archive_fp, images>>

diskVars == <<files, dirs>>

Result(op, page, value) == [op |-> op, page |-> page, value |-> value]

NoFiles == [q \in {} |-> Bytes("jpgOld")]

SanIdle == san_in = <<>> /\ san_out = <<>> /\ san_again = <<>>

ObjIdle ==
  /\ path = <<>>
  /\ skip_all_images = FALSE
  /\ archive = <<>>
  /\ archive_fp = FALSE
  /\ images = <<>>
  /\ result = Result("none", IntPage(0), "None")
  /\ calls = 0
  /\ closes = 0
  /\ finalizes = 0
  /\ added = <<>>

Init ==
  /\ meta \in ExportMetas
  /\ pc = "new"
  /\ fmt \in Formats
  /\ ctx = NoContext
  /\ ObjIdle
  /\ \E prior \in Priors(fmt) :
        /\ files = PriorFiles(fmt, meta, prior)
        /\ dirs = PriorDirs(fmt, meta, prior)
        /\ written = IF fmt = "raw" THEN prior ELSE {}
  /\ files0 = files
  /\ SanIdle

(***************************************************************************)
(* RawExporter                                                             *)
(***************************************************************************)
\* RawExporter.__init__
RawInit ==
  /\ pc = "new" /\ fmt = "raw"
  /\ pc' = "open"
  /\ ctx' = NamingContext(meta)
  /\ path' = RawDir(ctx')
  /\ dirs' = dirs \cup {Destination, TitleDir(ctx'), RawDir(ctx')}
  /\ result' = Result("init", IntPage(0), "None")
  /\ UNCHANGED <<meta, fmt, skip_all_images, archive, archive_fp, images, files, calls,
                 closes, finalizes, files0, added, written, sanVars>>

\* RawExporter.add_image
RawAddImage(image_data, index) ==
  /\ pc = "open" /\ fmt = "raw" /\ calls < MaxCalls
  /\ files' = WriteFile(files, PathJoin(<<path, format_page_name(ctx, index)>>),
                        Bytes(image_data))
  /\ written' = written \cup {index}
  /\ calls' = calls + 1
  /\ result' = Result("add_image", index, "None")
  /\ UNCHANGED <<meta, pc, fmt, ctx, objVars, dirs, closes, finalizes, files0,
                 added, sanVars>>

\* RawExporter.skip_image: the value returned
RawSkips(index) == Exists(files, dirs, PathJoin(<<path, format_page_name(ctx, index)>>))

RawSkipImage(index) ==
  /\ pc = "open" /\ fmt = "raw"
  /\ result' = Result("skip_image", index, IF RawSkips(index) THEN "True" ELSE "False")
  /\ UNCHANGED <<meta, pc, fmt, ctx, objVars, diskVars, calls, closes, finalizes, files0,
                 added, written, sanVars>>

\* ExporterBase.close, which RawExporter inherits
RawClose ==
  /\ pc = "open" /\ fmt = "raw" /\ closes < MaxCloses
  /\ closes' = closes + 1
  /\ result' = Result("close", IntPage(0), "None")
  /\ UNCHANGED <<meta, pc, fmt, ctx, objVars, diskVars, calls, finalizes, files0, added,
                 written, sanVars>>

(***************************************************************************)
(* CBZExporter                                                             *)
(***************************************************************************)
\* CBZExporter.__init__
CBZInit ==
  /\ pc = "new" /\ fmt = "cbz"
  /\ pc' = "open"
  /\ ctx' = NamingContext(meta)
  /\ dirs' = dirs \cup {Destination, TitleDir(ctx')}
  /\ path' = ContainerPath(ctx', CbzExt)
  /\ skip_all_images' = Exists(files, dirs', path')
  /\ archive' = <<>>
  /\ archive_fp' = TRUE
  /\ result' = Result("init", IntPage(0), "None")
  /\ UNCHANGED <<meta, fmt, images, files, calls, closes, finalizes, files0,
                 added, written, sanVars>>

\* CBZExporter.add_image: ZipFile.writestr raises ValueError on a closed archive
CBZAddImage(image_data, index) ==
  /\ pc = "open" /\ fmt = "cbz" /\ calls < MaxCalls
  /\ calls' = calls + 1
  /\ IF skip_all_images
     THEN /\ result' = Result("add_image", index, "None")
          /\ UNCHANGED <<archive, added>>
     ELSE IF ~archive_fp
     THEN /\ result' = Result("add_image", index, "ValueError")
          /\ UNCHANGED <<archive, added>>
     ELSE /\ archive' = Append(archive, <<ArchiveEntryName(ctx, index), image_data>>)
          /\ added' = Append(added, <<index, image_data>>)
          /\ result' = Result("add_image", index, "None")
  /\ UNCHANGED <<meta, pc, fmt, ctx, path, skip_all_images, archive_fp, images, diskVars,
                 closes, finalizes, files0, written, sanVars>>

\* CBZExporter.skip_image: the value returned
CBZSkips(index) == skip_all_images

CBZSkipImage(index) ==
  /\ pc = "open" /\ fmt = "cbz"
  /\ result' = Result("skip_image", index, IF CBZSkips(index) THEN "True" ELSE "False")
  /\ UNCHANGED <<meta, pc, fmt, ctx, objVars, diskVars, calls, closes, finalizes, files0,
                 added, written, sanVars>>

\* close without the skip-all check
CBZCloseReturns_never == FALSE

\* the early return of CBZExporter.close
CBZCloseReturns == skip_all_images

\* CBZExporter.close: ZipFile.close on a closed archive does nothing, and the
\* buffer is written to self.path in either case
CBZClose ==
  /\ pc = "open" /\ fmt = "cbz" /\ closes < MaxCloses
  /\ closes' = closes + 1
  /\ result' = Result("close", IntPage(0), "None")
  /\ IF CBZCloseReturns
     THEN UNCHANGED <<archive_fp, files, finalizes>>
     ELSE /\ archive_fp' = FALSE
          /\ files' = WriteFile(files, path, Zip(archive))
          /\ finalizes' = finalizes + 1
  /\ UNCHANGED <<meta, pc, fmt, ctx, path, skip_all_images, archive, images, dirs, calls,
                 files0, added, written, sanVars>>

(***************************************************************************)
(* PDFExporter                                                             *)
(***************************************************************************)
\* PDFExporter.__init__
PDFInit ==
  /\ pc = "new" /\ fmt = "pdf"
  /\ pc' = "open"
  /\ ctx' = NamingContext(meta)
  /\ dirs' = dirs \cup {Destination, TitleDir(ctx')}
  /\ path' = ContainerPath(ctx', PdfExt)
  /\ skip_all_images' = Exists(files, dirs', path')
  /\ images' = <<>>
  /\ result' = Result("init", IntPage(0), "None")
  /\ UNCHANGED <<meta, fmt, archive, archive_fp, files, calls, closes, finalizes, files0,
                 added, written, sanVars>>

\* PDFExporter.add_image
PDFAddImage(image_data, index) ==
  /\ pc = "open" /\ fmt = "pdf" /\ calls < MaxCalls
  /\ calls' = calls + 1
  /\ result' = Result("add_image", index, "None")
  /\ IF skip_all_images
     THEN UNCHANGED images
     ELSE images' = Append(images, ImageOpen(image_data))
  /\ UNCHANGED <<meta, pc, fmt, ctx, path, skip_all_images, archive, archive_fp, diskVars,
                 closes, finalizes, files0, added, written, sanVars>>

\* PDFExporter.skip_image: the value returned
PDFSkips(index) == skip_all_images

PDFSkipImage(index) ==
  /\ pc = "open" /\ fmt = "pdf"
  /\ result' = Result("skip_image", index, IF PDFSkips(index) THEN "True" ELSE "False")
  /\ UNCHANGED <<meta, pc, fmt, ctx, objVars, diskVars, calls, closes, finalizes, files0,
                 added, written, sanVars>>

\* close without the empty-buffer check
PDFCloseReturns_skipOnly == skip_all_images

\* the early return of PDFExporter.close
PDFCloseReturns == skip_all_images \/ images = <<>>

\* PDFExporter.close: images[0].save(self.path, "PDF", save_all=True,
\* append_images=images[1:], title=self.chapter_name, ...)
PDFClose ==
  /\ pc = "open" /\ fmt = "pdf" /\ closes < MaxCloses
  /\ closes' = closes + 1
  /\ result' = Result("close", IntPage(0), "None")
  /\ IF PDFCloseReturns
     THEN UNCHANGED <<files, finalizes>>
     ELSE /\ files' = WriteFile(files, path, Pdf(images, ctx.chapter_name))
          /\ finalizes' = finalizes + 1
  /\ UNCHANGED <<meta, pc, fmt, ctx, objVars, dirs, calls, files0, added, written, sanVars>>

Next ==
  \/ RawInit
  \/ \E d \in ImageData, i \in PageIndices : RawAddImage(d, i)
  \/ \E i \in PageIndices : RawSkipImage(i)
  \/ RawClose
  \/ CBZInit
  \/ \E d \in ImageData, i \in PageIndices : CBZAddImage(d, i)
  \/ \E i \in PageIndices : CBZSkipImage(i)
  \/ CBZClose
  \/ PDFInit
  \/ \E d \in ImageData, i \in PageIndices : PDFAddImage(d, i)
  \/ \E i \in PageIndices : PDFSkipImage(i)
  \/ PDFClose

Spec == Init /\ [][Next]_vars

(***************************************************************************)
(* The naming engine on its own: ExporterBase.__init__ over many chapters  *)
(***************************************************************************)
NameChars == {"#", "0", "1", "9", "e", "x", "-"}

SeqsUpTo(chars, n) == UNION { [1..k -> chars] : k \in 0..n }

\* a chapter has a name
NonEmpty(S) == S \ {<<>>}

SpecialNames ==
  { <<"1", "0", "0", "0">>, <<"#", "1", "0", "0", "0">>, <<"#", "1", "0", "0", "1">>,
    <<"#", "0", "4", "2">>, <<"#", "e", "x", "#">>, <<"o", "m", "a", "k", "e">>,
    <<"O", "n", "e", " ", "S", "h", "o", "t">>, <<" ", "5">>, <<"+", "7">> }

ChapterNames == NonEmpty(SeqsUpTo(NameChars, MaxNameLen)) \cup SpecialNames

NextNames ==
  { None, Some(<<>>), Some(<<"#", "6">>), Some(<<"#", "0">>), Some(<<"#", "1", "0", "0", "0">>),
    Some(<<"#", "1", "0", "0", "1">>), Some(<<"o", "m", "a", "k", "e">>) }

SubTitles == { <<>>, <<"o", "n", "e", "s", "h", "o", "t", " ", "s", "p", "e", "c", "i", "a", "l">> }

UtcOffsets == {0 - 18000, 0, 32400}

NameMetas ==
  { [BaseMeta EXCEPT !.chapter = n, !.next_chapter = x, !.sub_title = st]
      : n \in ChapterNames, x \in NextNames, st \in SubTitles }
  \cup
  { [BaseMeta EXCEPT !.start_timestamp = t, !.now = w, !.utcoffset = z, !.language = l,
                     !.add_chapter_title = a]
      : t \in Timestamps, w \in Timestamps, z \in UtcOffsets, l \in Languages, a \in BOOLEAN }

NameInit ==
  /\ meta \in NameMetas
  /\ pc = "new"
  /\ fmt = "base"
  /\ ctx = NoContext
  /\ ObjIdle
  /\ files = NoFiles /\ dirs = {} /\ files0 = NoFiles /\ written = {}
  /\ SanIdle

\* ExporterBase.__init__
ExporterBaseInit ==
  /\ pc = "new" /\ fmt = "base"
  /\ pc' = "named"
  /\ ctx' = NamingContext(meta)
  /\ UNCHANGED <<meta, fmt, objVars, diskVars, result, calls, closes, finalizes, files0,
                 added, written, sanVars>>

NameNext == ExporterBaseInit

SpecName == NameInit /\ [][NameNext]_vars

(***************************************************************************)
(* beautify_path applied to its own result                                 *)
(***************************************************************************)
SanChars == {"a", "B", "'", "(", ")", ":", " ", "/", "!", "U0130"}

SanInputs == SeqsUpTo(SanChars, MaxSanLen)

SanInit ==
  /\ san_in \in SanInputs /\ san_out = <<>> /\ san_again = <<>>
  /\ meta = BaseMeta
  /\ pc = "new"
  /\ fmt = "san"
  /\ ctx = NoContext
  /\ ObjIdle
  /\ files = NoFiles /\ dirs = {} /\ files0 = NoFiles /\ written = {}

\* beautify_path(path)
Sanitize ==
  /\ pc = "new" /\ fmt = "san"
  /\ pc' = "once"
  /\ san_out' = beautify_path(san_in)
  /\ UNCHANGED <<meta, fmt, ctx, objVars, diskVars, result, calls, closes, finalizes,
                 files0, added, written, san_in, san_again>>

\* beautify_path(beautify_path(path))
SanitizeAgain ==
  /\ pc = "once" /\ fmt = "san"
  /\ pc' = "twice"
  /\ san_again' = beautify_path(san_out)
  /\ UNCHANGED <<meta, fmt, ctx, objVars, diskVars, result, calls, closes, finalizes,
                 files0, added, written, san_in, san_out>>

SanNext == Sanitize \/ SanitizeAgain

SpecSan == SanInit /\ [][SanNext]_vars

(***************************************************************************)
(* Properties                                                              *)
(***************************************************************************)
Opened(f) == pc = "open" /\ fmt = f

\* the destination container of the chapter, <dest>/<titleName>/<chapterName><ext>
DestOf(ext) ==
  Destination \o <<"/">> \o ctx.title_name \o <<"/">> \o ctx.chapter_name \o ext

ResultBool == result.value = "True"

\* C1: a CBZExporter constructed while <dest>/<titleName>/<chapterName>.cbz
\* exists has skip-all set, answers skip_image with true for every index, and
\* whatever add_image and close calls follow, the archive keeps the content it
\* had: it is never written.
CBZResumeLeavesArchive ==
  (Opened("cbz") /\ DestOf(CbzExt) \in DOMAIN files0) =>
     /\ skip_all_images
     /\ \A i \in PageIndices : CBZSkips(i)
     /\ (result.op = "skip_image" => ResultBool)
     /\ DestOf(CbzExt) \in DOMAIN files
     /\ files[DestOf(CbzExt)] = files0[DestOf(CbzExt)]
     /\ finalizes = 0

CBZResumeWitness ==
  /\ Opened("cbz") /\ DestOf(CbzExt) \in DOMAIN files0
  /\ calls >= 1 /\ closes >= 1 /\ result.op = "close"

\* C2: for a RawExporter, skip_image(i) is true exactly when the page file of
\* index i exists, that is exactly for the indices an earlier run or an
\* add_image wrote: distinct indices, single or range, have distinct files.
RawSkipMatchesWritten ==
  Opened("raw") =>
     /\ \A i \in PageIndices :
          /\ RawSkips(i) <=> i \in written
          /\ RawSkips(i) <=> PathJoin(<<RawDir(ctx), format_page_name(ctx, i)>>) \in DOMAIN files
     /\ Cardinality(DOMAIN files) = Cardinality(written)
     /\ (result.op = "skip_image" => (ResultBool <=> result.page \in written))

RawSkipWitness ==
  /\ Opened("raw") /\ result.op = "add_image"
  /\ PagePath(ctx, result.page) \notin DOMAIN files0
  /\ RawSkips(result.page)
  /\ result.page.kind = "range"
  /\ \E j \in PageIndices : ~RawSkips(j)

\* C3: a PDFExporter never writes a document of zero pages: the .pdf is written
\* only by a close with skip-all unset and at least one image buffered; with
\* skip-all set or nothing buffered, the files on disk are those found at
\* construction.
PDFNeverEmpty ==
  Opened("pdf") =>
     /\ (skip_all_images \/ images = <<>>) => (files = files0 /\ finalizes = 0)
     /\ files # files0 => (closes >= 1 /\ ~skip_all_images /\ images # <<>>)
     /\ DestOf(PdfExt) \in DOMAIN files => files[DestOf(PdfExt)].pages # <<>>
     /\ DOMAIN files \subseteq (DOMAIN files0 \cup {DestOf(PdfExt)})

PDFNeverEmptyWitness ==
  /\ Opened("pdf") /\ ~skip_all_images /\ images = <<>>
  /\ closes >= 1 /\ result.op = "close"
  /\ DestOf(PdfExt) \notin DOMAIN files

\* C4: over any sequence of calls, a CBZExporter or PDFExporter performs the
\* finalize step (writing the container to the destination path) at most once.
FinalizeAtMostOnce == fmt \in {"cbz", "pdf"} => finalizes <= 1

\* C5: the chapter-number token of a resolved number: "000" for a oneshot;
\* for a non-oneshot extra whose next-chapter name parses to n, letter, n - 1
\* zero-padded to width 3, "x1"; otherwise for a name that parses to n, letter
\* and n zero-padded to width 3; the letter is "c" below 1000 and "d" from 1000,
\* and a number of four digits or more is rendered in full.
TokenOf(c, m) == c.components[IF m.language = <<"e", "n", "g">> THEN 3 ELSE 4]

\* s is the decimal numeral of n, filled with "0" on the left up to width 3
ZeroPadded(s, n) ==
  LET d == IntStr(n) IN
  /\ Len(s) = (IF Len(d) < 3 THEN 3 ELSE Len(d))
  /\ SubSeq(s, Len(s) - Len(d) + 1, Len(s)) = d
  /\ \A k \in 1..(Len(s) - Len(d)) : s[k] = "0"

LetterFor(n) == IF n < 1000 THEN "c" ELSE "d"

ResolvedToken ==
  pc = "named" =>
    LET tok == TokenOf(ctx, meta)
        viaNext == ~ctx.is_oneshot /\ ctx.is_extra /\ Truthy(meta.next_chapter)
    IN  /\ ctx.is_oneshot => tok = <<"0", "0", "0">>
        /\ (viaNext /\ chapter_name_to_int(meta.next_chapter[1]) # None) =>
              LET n == chapter_name_to_int(meta.next_chapter[1])[1] - 1 IN
              /\ Len(tok) >= 6
              /\ tok[1] = LetterFor(n)
              /\ ZeroPadded(SubSeq(tok, 2, Len(tok) - 2), n)
              /\ SubSeq(tok, Len(tok) - 1, Len(tok)) = <<"x", "1">>
        /\ (~ctx.is_oneshot /\ ~viaNext /\ chapter_name_to_int(meta.chapter) # None) =>
              LET n == chapter_name_to_int(meta.chapter)[1] IN
              /\ Len(tok) >= 4
              /\ tok[1] = LetterFor(n)
              /\ ZeroPadded(Tail(tok), n)

ResolvedTokenWitness ==
  /\ pc = "named" /\ ctx.is_extra /\ ~ctx.is_oneshot
  /\ meta.next_chapter = Some(<<"#", "1", "0", "0", "1">>)
  /\ TokenOf(ctx, meta) = <<"d", "1", "0", "0", "0", "x", "1">>

\* C6: whenever no number is resolved, the chapter-number token is exactly the
\* sanitized chapter name: no padding, no prefix letter, no suffix.
FallbackTokenVerbatim ==
  (pc = "named"
     /\ ResolvedNumber(ctx.is_oneshot, ctx.is_extra, meta.chapter, meta.next_chapter) = None)
  => TokenOf(ctx, meta) = beautify_path(meta.chapter)

\* C7: the prefix holds the segment "(<year>)" exactly when the publication
\* year is at most the current year; for a later year it is left out; the
\* prefix always ends with "(web)".
YearSegment(m) == <<"(">> \o IntStr(YearOfTimestamp(m.start_timestamp, m.utcoffset)) \o <<")">>

Web == <<"(", "w", "e", "b", ")">>

YearGuard ==
  pc = "named" =>
    LET comps == ctx.components
        n == Len(comps)
        past == YearOfTimestamp(meta.start_timestamp, meta.utcoffset)
                  <= YearOfTimestamp(meta.now, meta.utcoffset)
    IN  /\ n >= 3
        /\ comps[n] = Web
        /\ EndsWith(ctx.chapter_prefix, <<" ">> \o Web)
        /\ past <=> comps[n - 1] = YearSegment(meta)
        /\ past <=> EndsWith(ctx.chapter_prefix, <<" ">> \o YearSegment(meta) \o <<" ">> \o Web)
        /\ ~past => ~Contains(ctx.chapter_prefix, YearSegment(meta))

YearGuardWitness ==
  /\ pc = "named"
  /\ YearOfTimestamp(meta.start_timestamp, meta.utcoffset) = 2027
  /\ YearOfTimestamp(meta.now, meta.utcoffset) = 2026
  /\ ~Contains(ctx.chapter_prefix, <<"(", "2", "0", "2", "7", ")">>)

\* C8: beautify_path is idempotent: applied to its own result it returns it.
SanitizeIdempotent == (fmt = "san" /\ pc = "twice") => san_again = san_out

\* C9: once close has been called, no later add_image, skip_image or close
\* changes what is persisted at the destination.
ClosedIsTerminal == [][closes >= 1 => files' = files]_vars

\* C10: a CBZExporter constructed while its destination archive does not exist
\* leaves no .cbz on disk before close, and what close writes is an archive
\* holding one entry per add_image call, <chapterName>/<page filename> with the
\* bytes passed, in call order.
ExpectedEntries ==
  [k \in 1..Len(added) |->
     << ctx.chapter_name \o <<"/">> \o format_page_name(ctx, added[k][1]), added[k][2] >>]

CBZWritesOnClose ==
  (Opened("cbz") /\ DestOf(CbzExt) \notin DOMAIN files0) =>
     /\ closes = 0 => (DestOf(CbzExt) \notin DOMAIN files /\ files = files0)
     /\ DestOf(CbzExt) \in DOMAIN files =>
          /\ files[DestOf(CbzExt)] = Zip(ExpectedEntries)
          /\ DOMAIN files = DOMAIN files0 \cup {DestOf(CbzExt)}

CBZWritesOnCloseWitness ==
  /\ Opened("cbz") /\ DestOf(CbzExt) \notin DOMAIN files0
  /\ DestOf(CbzExt) \in DOMAIN files
  /\ Len(files[DestOf(CbzExt)].entries) = 2
  /\ files[DestOf(CbzExt)].entries[1][2] # files[DestOf(CbzExt)].entries[2][2]
====
